---- MODULE Spec2Model ----
(***************************************************************************)
(* makeindex.py: the index generator of the THoB podcast site.             *)
(*                                                                         *)
(* A run reads an index file (a template or a partly generated index),     *)
(* walks the chain of blog posts along their "next" links, merges every    *)
(* post into the index (Publication.addToIndex) and prints the index to    *)
(* standard output.  The printed index is the input of the next run.       *)
(*                                                                         *)
(* Strings are sequences of one-character strings; a URL is a number       *)
(* 1..MaxPubs that names a post of the site, NoUrl is Python's None.       *)
(***************************************************************************)
EXTENDS Integers, Sequences, FiniteSets

\* ------------------------------------------------------------------ bounds
\* Number of posts of the site (the chain of "next" links).
MaxPubs == 3
\* Number of century panels of the index file.
NumCenturies == 3
\* Largest <num records> argument tried.
MaxCap == 2
\* Number of runs of the program in a behaviour.
MaxRuns == 2
\* Number of merges of one run that the model follows (more than a chain
\* without a cycle has pages, so it cuts only the runs that go round a cycle).
MaxMerges == 5

\* --------------------------------------------------------------- constants
\* None, as the value of an absent href / data-curr-pub attribute.
NoUrl == 0
\* datetime.today(), as a date that no post carries.
Today == 0
Centuries == 1..NumCenturies
Digits == <<"0", "1", "2", "3", "4", "5", "6", "7", "8", "9">>

VARIABLES
    web,        \* the site: url -> the page that Publication(url) reads
    clock,      \* the days gone by since the first run
    files,      \* the index files: files[1] is the user's, files[r+1] what run r printed
    run,        \* the number of the current run
    maxPubs,    \* argv[2]: <<>> when absent (None), <<k>> otherwise
    pc,         \* position of the current run in MAIN
    iDom,       \* the index document in memory
    newUrl,     \* the next page to read
    newPub,     \* the Publication read, before addToIndex
    npubs,      \* the loop's counter
    stdout,     \* what the run printed to standard output: <<>> or <<document>>
    merged      \* history: the URLs whose addToIndex call returned, over all runs

vars == <<web, clock, files, run, maxPubs, pc, iDom, newUrl, newPub, npubs, stdout, merged>>

\* ----------------------------------------------------------------- helpers
\* re.search('^[0-9]+$', s)
IsNumeric(s) ==
    /\ Len(s) > 0
    /\ \A i \in 1..Len(s) : \E d \in 1..Len(Digits) : Digits[d] = s[i]

DigitVal(c) == (CHOOSE d \in 1..Len(Digits) : Digits[d] = c) - 1

\* int(s), for a string of decimal digits
RECURSIVE ToInt(_)
ToInt(s) ==
    IF Len(s) = 0 THEN 0
    ELSE 10 * ToInt(SubSeq(s, 1, Len(s) - 1)) + DigitVal(s[Len(s)])

\* int(s) raises ValueError (TypeError for None) unless s is a decimal literal
IntRaises(s) == ~IsNumeric(s)

\* s[:n]
Take(s, n) == SubSeq(s, 1, IF Len(s) < n THEN Len(s) ELSE n)

\* ------------------------------------------------------------ Publication
\* What Publication.__init__ leaves in self after reading a page: the three
\* types of publication and the fields the title yields.
Kinds == {
    [type |-> "news",    episode |-> <<>>,              series |-> "none",
     title |-> "An announcement"],
    [type |-> "podcast", episode |-> <<"1">>,           series |-> "none",
     title |-> "An episode"],
    [type |-> "podcast", episode |-> <<"2">>,           series |-> "none",
     title |-> "An episode"],
    [type |-> "podcast", episode |-> <<"2", "a">>,      series |-> "none",
     title |-> "An episode"],
    [type |-> "special", episode |-> <<"7">>,           series |-> "rewards",
     title |-> "A reward"],
    [type |-> "special", episode |-> <<"1">>,           series |-> "stories",
     title |-> "John Chrysostom. Parts 2, 3 and 4."] }

\* The content of meta[property="article:published_time"] of the page at url:
\* the calendar date, then the time of day.
PublishedTime(url) == <<url, "T", "10:00">>

\* The page at url: its nav-next href, what the title yields, and the
\* published-time attribute (<<>> when the page has no such meta element,
\* <<content>> otherwise).
Page(url, next, kind, hasMeta) ==
    [url |-> url, next |-> next,
     type |-> kind.type, episode |-> kind.episode, series |-> kind.series,
     title |-> kind.title,
     published |-> IF hasMeta THEN <<PublishedTime(url)>> ELSE <<>>]

\* ---------------------------------------------------------- the index file
Series == {"stories", "rewards"}

\* An index template: no rows, no current publication, the first publication
\* set; the skip list, the thresholds of the century panels, the current
\* century and the presence of #makeindex-data are the author's.
Template(century, skip, firstEp, hasData) ==
    [currCentury |-> century,
     currPub     |-> NoUrl,
     firstPub    |-> 1,
     currDate    |-> <<>>,
     skip        |-> skip,
     hasData     |-> hasData,
     firstEp     |-> firstEp,
     century     |-> [c \in Centuries |-> <<>>],
     special     |-> [s \in Series |-> <<>>],
     all         |-> <<>>]

\* --------------------------------------------------- Publication.addToIndex
\* trFormat.format(**cells): the episode cell links when there is an episode
\* code, the title cell otherwise.
Row(p) ==
    [href    |-> p.url,
     episode |-> p.episode,
     title   |-> p.title,
     link    |-> IF p.episode # <<>> THEN "episode" ELSE "title"]

\* The three hard-coded rows of Byzantine Stories 1.2-1.4.
ChrysostomRows(p) ==
    << [href |-> p.url, episode |-> <<"1", ".", "2">>, link |-> "episode",
        title |-> "John Chrysostom. Part 2 - Building Orthodoxy"],
       [href |-> p.url, episode |-> <<"1", ".", "3">>, link |-> "episode",
        title |-> "John Chrysostom. Part 3 - The Snake Pit"],
       [href |-> p.url, episode |-> <<"1", ".", "4">>, link |-> "episode",
        title |-> "John Chrysostom. Part 4 - A Byzantine Story"] >>

\* A variant that puts the new rows first.
PrependRows(table, trs) == trs \o table

\* iDom('... table').append(tr), on the table's rows
AppendRows(table, trs) == table \o trs

\* A variant that empties the skip list.
RemoveAllSkips(skip, url) == {}

\* skipme.remove()
RemoveSkip(skip, url) == skip \ {url}

\* iDom('div.panel.century[data-century="%s"] + div.panel.century' % century):
\* the panel right after the one century names, 0 when the selection is empty.
NextCenturyPanel(century) ==
    IF century \in Centuries /\ century + 1 \in Centuries THEN century + 1 ELSE 0

\* A variant that does the century bookkeeping of a skipped episode too.
SkipBranchAdvancing(p, d) ==
    [dom    |-> [d EXCEPT
                   !.skip = RemoveSkip(d.skip, p.url),
                   !.currCentury =
                       IF /\ p.type = "podcast"
                          /\ IsNumeric(p.episode)
                          /\ d.currCentury \in Centuries
                          /\ d.currCentury + 1 \in Centuries
                          /\ IsNumeric(d.firstEp[d.currCentury + 1])
                          /\ ToInt(p.episode) >= ToInt(d.firstEp[d.currCentury + 1])
                       THEN d.currCentury + 1 ELSE @],
     raised |-> ~d.hasData]

\* Lines 176-183: the URL is on the skip list.  The span is removed, then the
\* html of #makeindex-data is cleaned; html() of an empty selection is None and
\* re.sub raises TypeError.
SkipBranch(p, d) ==
    [dom    |-> [d EXCEPT !.skip = RemoveSkip(d.skip, p.url)],
     raised |-> ~d.hasData]

\* A variant that also lists a special episode among all episodes.
SpecialBranchAlsoAll(p, d) ==
    [dom    |-> [d EXCEPT !.special[p.series] = AppendRows(@, <<Row(p)>>),
                          !.all = AppendRows(@, <<Row(p)>>)],
     raised |-> FALSE]

\* Lines 206-232: a special episode goes to the panel of its series only.
SpecialBranch(p, d) ==
    [dom    |-> [d EXCEPT !.special[p.series] =
                    AppendRows(@, IF p.title = "John Chrysostom. Parts 2, 3 and 4."
                                  THEN ChrysostomRows(p) ELSE <<Row(p)>>)],
     raised |-> FALSE]

\* Lines 243-250: does the podcast branch read the next panel's data-first-ep?
ReadsThreshold(p, d) ==
    /\ p.type = "podcast"
    /\ IsNumeric(p.episode)
    /\ NextCenturyPanel(d.currCentury) # 0

\* A variant that looks the century up among all panels: the last panel whose
\* first episode is not after this one.
SelectCenturyByLookup(p, d) ==
    IF p.type = "podcast" /\ IsNumeric(p.episode) /\ d.currCentury \in Centuries
    THEN LET ok == {c \in Centuries : /\ IsNumeric(d.firstEp[c])
                                      /\ ToInt(d.firstEp[c]) <= ToInt(p.episode)}
         IN  IF ok = {} THEN d.currCentury
             ELSE CHOOSE c \in ok : \A e \in ok : e <= c
    ELSE d.currCentury

\* The number a string starts with (0 when it starts with no digit).
RECURSIVE LeadingInt(_)
LeadingInt(s) ==
    IF s = <<>> THEN 0
    ELSE IF IsNumeric(s) THEN ToInt(s)
    ELSE LeadingInt(SubSeq(s, 1, Len(s) - 1))

\* A variant that compares the number an episode code starts with, letter
\* suffix or not.
SelectCenturyByLeadingDigits(p, d) ==
    IF /\ p.type = "podcast"
       /\ NextCenturyPanel(d.currCentury) # 0
       /\ IsNumeric(d.firstEp[NextCenturyPanel(d.currCentury)])
       /\ LeadingInt(p.episode) >= ToInt(d.firstEp[NextCenturyPanel(d.currCentury)])
    THEN NextCenturyPanel(d.currCentury)
    ELSE d.currCentury

\* A variant that advances only past the first episode of the next century.
SelectCenturyStrict(p, d) ==
    IF /\ ReadsThreshold(p, d)
       /\ ToInt(p.episode) > ToInt(d.firstEp[NextCenturyPanel(d.currCentury)])
    THEN NextCenturyPanel(d.currCentury)
    ELSE d.currCentury

\* Lines 237-255: the century panel of a news or podcast row.
SelectCentury(p, d) ==
    IF /\ ReadsThreshold(p, d)
       /\ ToInt(p.episode) >= ToInt(d.firstEp[NextCenturyPanel(d.currCentury)])
    THEN NextCenturyPanel(d.currCentury)
    ELSE d.currCentury

\* Lines 234-263: news or podcast.  int(data-first-ep) raises before anything
\* is written; otherwise data-curr-century is set when the century advances
\* and the row goes to the century panel (if the selector finds one) and to
\* the list of all episodes.
CenturyBranch(p, d) ==
    IF ReadsThreshold(p, d) /\ IntRaises(d.firstEp[NextCenturyPanel(d.currCentury)])
    THEN [dom |-> d, raised |-> TRUE]
    ELSE LET century == SelectCentury(p, d)
         IN  [dom |-> [d EXCEPT
                         !.currCentury = century,
                         !.century = IF century \in Centuries
                                     THEN [@ EXCEPT ![century] = AppendRows(@, <<Row(p)>>)]
                                     ELSE @,
                         !.all = AppendRows(@, <<Row(p)>>)],
              raised |-> FALSE]

\* datetime.today().strftime('%Y-%m-%d'): the date of the first run and the
\* days gone by since.
TodayDate == <<Today, clock>>

\* Lines 265-273: the date as of which the index is current, and the current
\* publication.  attr('content') of a missing meta element is None, and
\* None[:10] raises TypeError.
StateUpdate(p, d) ==
    IF p.next # NoUrl /\ p.published = <<>>
    THEN [dom |-> d, raised |-> TRUE]
    ELSE [dom |-> [d EXCEPT
                     !.currDate = IF p.next # NoUrl
                                  THEN Take(p.published[1], 1)
                                  ELSE TodayDate,
                     !.currPub = p.url],
          raised |-> FALSE]

\* Publication.addToIndex(iDom): the document it leaves, and whether it raised.
addToIndex(p, d) ==
    LET placed == IF p.url \in d.skip THEN SkipBranch(p, d)
                  ELSE IF p.type = "special" THEN SpecialBranch(p, d)
                  ELSE CenturyBranch(p, d)
    IN  IF placed.raised THEN placed ELSE StateUpdate(p, placed.dom)

\* -------------------------------------------------------------------- MAIN
\* The <num records> arguments: absent, or a number.
Caps == {<<>>} \cup {<<k>> : k \in 0..MaxCap}

\* A site: a chain of n pages linked by their nav-next anchors; the last has
\* none.  noMeta is the page without a published-time meta element, if any.
Site(n, kinds, noMeta) ==
    [u \in 1..n |-> Page(u, IF u < n THEN u + 1 ELSE NoUrl, kinds[u], u # noMeta)]

\* The data-first-ep attributes of the century panels: the first panel starts
\* at episode 1, the later ones at episode 2; bad is the panel whose attribute
\* is no number, if any.
FirstEp(bad) ==
    [c \in Centuries |-> IF c = bad THEN <<"x">> ELSE IF c = 1 THEN <<"1">> ELSE <<"2">>]

\* Well-formed inputs: every page carries its published time, the template has
\* numeric thresholds, a #makeindex-data region and a current century that
\* names its first panel.
InitWellFormed ==
    \E n \in 1..MaxPubs : \E kinds \in [1..n -> Kinds] :
    \E skip \in SUBSET (1..2), cap \in Caps :
        /\ web = Site(n, kinds, NoUrl)
        /\ files = <<Template(1, skip, FirstEp(0), TRUE)>>
        /\ maxPubs = cap

\* Inputs with one anomaly: a page without published time, a century panel
\* without a numeric data-first-ep, a template without #makeindex-data, or a
\* template whose data-curr-century names no panel.
InitAnomalous ==
    \E n \in 1..MaxPubs : \E kinds \in [1..n -> Kinds] :
        /\ web \in {Site(n, kinds, NoUrl)} \cup {Site(n, kinds, u) : u \in 1..n}
        /\ files \in
             IF \E u \in 1..n : web[u].published = <<>>
             THEN {<<Template(1, {}, FirstEp(0), TRUE)>>}
             ELSE {<<Template(1, {}, FirstEp(bad), TRUE)>> : bad \in 2..NumCenturies}
                  \cup {<<Template(1, skip, FirstEp(0), FALSE)>> : skip \in {{}, {2}}}
                  \cup {<<Template(0, {}, FirstEp(0), TRUE)>>}
        /\ maxPubs = <<>>

\* The state before the first step of the first run.
InitRun ==
    /\ clock = 0
    /\ run = 1
    /\ pc = "start"
    /\ iDom = files[1]
    /\ newUrl = NoUrl
    /\ newPub = <<>>
    /\ npubs = 0
    /\ stdout = <<>>
    /\ merged = <<>>

Init ==
    /\ InitWellFormed \/ InitAnomalous
    /\ InitRun

\* A site whose last page links to page back (a cycle), or to none.
SiteWithBackLink(n, kinds, back) ==
    [Site(n, kinds, NoUrl) EXCEPT ![n].next = back]

\* Sites with and without a cycle, all pages of one kind, on a well-formed
\* template, with and without a cap.
InitCyclic ==
    /\ \E n \in 1..MaxPubs : \E kind \in Kinds, back \in 0..n, cap \in Caps :
          /\ web = SiteWithBackLink(n, [u \in 1..n |-> kind], back)
          /\ files = <<Template(1, {}, FirstEp(0), TRUE)>>
          /\ maxPubs = cap
    /\ InitRun

\* Publication(url) succeeds: the page is read.  (pq(url=url) raising is the
\* FetchFails actions.)
Publication(url) == web[url]

\* A variant that starts again at the current publication itself.
ResumeAtCurrent(d) ==
    IF d.currPub # NoUrl THEN d.currPub ELSE d.firstPub

\* Lines 299-308: where the run starts.  An index that reflects a current
\* publication continues after it, an empty one starts from data-first-pub.
ResumeUrl(d) ==
    IF d.currPub # NoUrl THEN Publication(d.currPub).next ELSE d.firstPub

\* A variant that stops once the counter has reached the cap.
NextUrlStrict(p, cap, n) ==
    IF cap = <<>> \/ n < cap[1] THEN p.next ELSE NoUrl

\* A variant that follows the next link whatever the cap.
NextUrlIgnoringCap(p, cap, n) == p.next

\* Line 318: the next page, or None when the cap says stop.
NextUrl(p, cap, n) ==
    IF cap = <<>> \/ n <= cap[1] THEN p.next ELSE NoUrl

\* Line 322: the document printed to standard output.
WriteIndex(d) == <<d>>

\* A variant that stamps the index with today's date when the run starts.
StartRefreshingDate ==
    /\ pc = "start"
    /\ iDom' = [files[run] EXCEPT !.currDate = TodayDate]
    /\ newUrl' = ResumeUrl(files[run])
    /\ npubs' = 0
    /\ pc' = "loop"
    /\ UNCHANGED <<web, clock, files, run, maxPubs, newPub, stdout, merged>>

\* Lines 296-311: read the index file and determine the first step.
Start ==
    /\ pc = "start"
    /\ iDom' = files[run]
    /\ newUrl' = ResumeUrl(files[run])
    /\ npubs' = 0
    /\ pc' = "loop"
    /\ UNCHANGED <<web, clock, files, run, maxPubs, newPub, stdout, merged>>

\* Line 302: reading the current publication fails; the exception propagates.
StartFetchFails ==
    /\ pc = "start"
    /\ files[run].currPub # NoUrl
    /\ iDom' = files[run]
    /\ pc' = "fetch_error"
    /\ UNCHANGED <<web, clock, files, run, maxPubs, newUrl, newPub, npubs, stdout, merged>>

\* Lines 312-314: there is a next page and it is read.
Read ==
    /\ pc = "loop"
    /\ newUrl # NoUrl
    /\ npubs < MaxMerges
    /\ newPub' = Publication(newUrl)
    /\ pc' = "merge"
    /\ UNCHANGED <<web, clock, files, run, maxPubs, iDom, newUrl, npubs, stdout, merged>>

\* A variant that catches the exception, leaves the loop and prints the index.
ReadFetchFailsCaught ==
    /\ pc = "loop"
    /\ newUrl # NoUrl
    /\ npubs < MaxMerges
    /\ pc' = "fetch_error"
    /\ stdout' = WriteIndex(iDom)
    /\ UNCHANGED <<web, clock, files, run, maxPubs, iDom, newUrl, newPub, npubs, merged>>

\* Line 314: reading the next page fails; the exception propagates and
\* nothing is printed.
ReadFetchFails ==
    /\ pc = "loop"
    /\ newUrl # NoUrl
    /\ npubs < MaxMerges
    /\ pc' = "fetch_error"
    /\ UNCHANGED <<web, clock, files, run, maxPubs, iDom, newUrl, newPub, npubs, stdout, merged>>

\* Lines 315-318: the page is added to the index, counted, and the next URL
\* is chosen.  An exception in addToIndex propagates and ends the run with the
\* document as addToIndex left it and nothing printed.
Merge ==
    /\ pc = "merge"
    /\ LET r == addToIndex(newPub, iDom)
       IN  /\ iDom' = r.dom
           /\ IF r.raised
              THEN /\ pc' = "merge_error"
                   /\ UNCHANGED <<newUrl, npubs, stdout, merged>>
              ELSE /\ pc' = "loop"
                   /\ npubs' = npubs + 1
                   /\ newUrl' = NextUrl(newPub, maxPubs, npubs + 1)
                   /\ merged' = Append(merged, newPub.url)
                   /\ UNCHANGED stdout
    /\ UNCHANGED <<web, clock, files, run, maxPubs, newPub>>

\* Lines 321-323: no next page; the index is written to standard output.
Finish ==
    /\ pc = "loop"
    /\ newUrl = NoUrl
    /\ stdout' = WriteIndex(iDom)
    /\ pc' = "done"
    /\ UNCHANGED <<web, clock, files, run, maxPubs, iDom, newUrl, newPub, npubs, merged>>

\* The user saves the printed index and runs the program on it again, on the
\* same day or the next, this time without <num records>.
Rerun ==
    /\ pc = "done"
    /\ run < MaxRuns
    /\ clock' \in {clock, clock + 1}
    /\ files' = Append(files, stdout[1])
    /\ run' = run + 1
    /\ maxPubs' = <<>>
    /\ stdout' = <<>>
    /\ pc' = "start"
    /\ UNCHANGED <<web, iDom, newUrl, newPub, npubs, merged>>

Next ==
    \/ Start
    \/ StartFetchFails
    \/ Read
    \/ ReadFetchFails
    \/ Merge
    \/ Finish
    \/ Rerun

Spec == Init /\ [][Next]_vars

\* The script is one sequential process: a step that can be taken is taken.
SpecCyclic == InitCyclic /\ [][Next]_vars /\ WF_vars(Next)

\* Lines 310-318 with maxPubs None: the walk from url to the end of the chain,
\* as the document it leaves and whether addToIndex raised on the way.
RECURSIVE Walk(_, _)
Walk(url, d) ==
    IF url = NoUrl THEN [dom |-> d, raised |-> FALSE]
    ELSE LET r == addToIndex(Publication(url), d)
         IN  IF r.raised THEN r ELSE Walk(Publication(url).next, r.dom)

\* Lines 295-322: one run without <num records> on index file d, no fetch
\* failing.
UncappedRun(d) == Walk(ResumeUrl(d), d)

\* ------------------------------------------------- text, as Python handles it
\* A text is a sequence of characters, each a one-character string; "ndash",
\* "nbsp" and "obj" are the en dash, the no-break space and the object
\* replacement character.
Lower == {"a", "b", "c", "d", "e", "f", "g", "h", "i", "j", "k", "l", "m",
          "n", "o", "p", "q", "r", "s", "t", "u", "v", "w", "x", "y", "z"}
Upper == {"A", "B", "C", "D", "E", "F", "G", "H", "I", "J", "K", "L", "M",
          "N", "O", "P", "Q", "R", "S", "T", "U", "V", "W", "X", "Y", "Z"}
DigitChars == {Digits[d] : d \in 1..Len(Digits)}

\* s[i - 1:].startswith(w), for a position i counted from 1
StartsWithAt(s, i, w) ==
    /\ i >= 1
    /\ i + Len(w) - 1 <= Len(s)
    /\ SubSeq(s, i, i + Len(w) - 1) = w

\* s[i - 1:]
From(s, i) == SubSeq(s, i, Len(s))

\* s.find(w) + 1: the first position of w in s, 0 when there is none
Find(s, w) ==
    LET at == {i \in 1..Len(s) : StartsWithAt(s, i, w)}
    IN  IF at = {} THEN 0 ELSE CHOOSE i \in at : \A j \in at : i <= j

\* s.replace(old, new): every occurrence, left to right, none overlapping
RECURSIVE Replace(_, _, _)
Replace(s, old, new) ==
    IF Find(s, old) = 0 THEN s
    ELSE SubSeq(s, 1, Find(s, old) - 1) \o new \o
         Replace(From(s, Find(s, old) + Len(old)), old, new)

\* s.split(sep), for a separator of one character
RECURSIVE Split(_, _)
Split(s, sep) ==
    IF Find(s, <<sep>>) = 0 THEN <<s>>
    ELSE <<SubSeq(s, 1, Find(s, <<sep>>) - 1)>> \o
         Split(From(s, Find(s, <<sep>>) + 1), sep)

\* sep.join(parts)
RECURSIVE Join(_, _)
Join(parts, sep) ==
    IF Len(parts) = 0 THEN <<>>
    ELSE IF Len(parts) = 1 THEN parts[1]
    ELSE parts[1] \o sep \o Join(Tail(parts), sep)

\* '%d' % n, for n >= 0
RECURSIVE ToStr(_)
ToStr(n) ==
    IF n < 10 THEN <<Digits[n + 1]>>
    ELSE ToStr(n \div 10) \o <<Digits[(n % 10) + 1]>>

\* The position after the longest run of characters of the class that
\* starts at position i of s: what a greedy [class]* consumes.
RECURSIVE RunEnd(_, _, _)
RunEnd(s, i, class) ==
    IF i <= Len(s) /\ s[i] \in class THEN RunEnd(s, i + 1, class) ELSE i

\* '(.*)$' at position i: the rest of the text when it holds no line break
\* other than a last one, which '$' leaves out; <<>> when there is no match,
\* <<group>> otherwise.
DotStarEnd(s, i) ==
    LET rest == From(s, i)
        body == IF rest # <<>> /\ rest[Len(rest)] = "\n"
                THEN SubSeq(rest, 1, Len(rest) - 1) ELSE rest
    IN  IF \E j \in 1..Len(body) : body[j] = "\n" THEN <<>> ELSE <<body>>

\* ------------------------------------------ Publication.__init__: the title
\* self.D('h1.entry-title').text() with its four replacements
UrlTitle(text) ==
    Replace(Replace(Replace(Replace(text, <<"&", "n", "b", "s", "p", ";">>, <<" ">>),
            <<"nbsp">>, <<" ">>),
                    <<"&", "#", "8", "2", "1", "1", ";">>, <<"ndash">>), <<"obj">>, <<>>)

\* '[0-9]+[a-z]? – ' at position i of s: the position where ' – ' starts, 0
\* when there is no match. The digits taken are the whole run: a shorter run
\* would be followed by a digit, which neither [a-z] nor ' ' matches.
EpisodeCodeEnd(s, i) ==
    LET j == RunEnd(s, i, DigitChars)
    IN  IF j = i THEN 0
        ELSE IF StartsWithAt(s, j, <<" ", "ndash", " ">>) THEN j
        ELSE IF j <= Len(s) /\ s[j] \in Lower /\ StartsWithAt(s, j + 1, <<" ", "ndash", " ">>)
             THEN j + 1
        ELSE 0

\* re.search('Episode [0-9]+[a-z]? – ', urltitle): epmatch.start() + 1, 0 for
\* no match
EpisodeSearch(urltitle) ==
    LET at == {i \in 1..Len(urltitle) :
                 /\ StartsWithAt(urltitle, i, <<"E", "p", "i", "s", "o", "d", "e", " ">>)
                 /\ EpisodeCodeEnd(urltitle, i + 8) # 0}
    IN  IF at = {} THEN 0 ELSE CHOOSE i \in at : \A j \in at : i <= j

\* re.search('^Episode ([0-9]+[a-z]?) – (.*)$', urltitle): <<>> for None,
\* <<groups>> otherwise
PodcastMatch(urltitle) ==
    LET e == IF StartsWithAt(urltitle, 1, <<"E", "p", "i", "s", "o", "d", "e", " ">>)
             THEN EpisodeCodeEnd(urltitle, 9) ELSE 0
    IN  IF e = 0 \/ DotStarEnd(urltitle, e + 3) = <<>> THEN <<>>
        ELSE <<[g1 |-> SubSeq(urltitle, 9, e - 1),
                g2 |-> DotStarEnd(urltitle, e + 3)[1]]>>

\* A variant that takes any text before " Episode" for the series name.
SpecialMatchAnyPrefix(urltitle) ==
    LET i == EpisodeSearch(urltitle)
        e == EpisodeCodeEnd(urltitle, i + 8)
        k == IF i > 2 /\ urltitle[i - 2] = "." THEN i - 3 ELSE i - 2
    IN  <<[g1 |-> SubSeq(urltitle, 1, k),
           g2 |-> SubSeq(urltitle, i + 8, e - 1),
           g3 |-> From(urltitle, e + 3)]>>

\* re.search('^([A-Za-z ]+)[.]? Episode ([0-9]+[a-z]?) – (.*)$', urltitle):
\* <<>> for None, <<groups>> otherwise. Group 1 is the first k characters,
\* k the largest length with which the rest of the pattern matches.
SpecialMatch(urltitle) ==
    LET dot(k) == IF k < Len(urltitle) /\ urltitle[k + 1] = "." THEN 1 ELSE 0
        code(k) == k + dot(k) + 10
        ok(k) ==
            /\ \A i \in 1..k : urltitle[i] \in Upper \cup Lower \cup {" "}
            /\ StartsWithAt(urltitle, k + dot(k) + 1, <<" ", "E", "p", "i", "s", "o", "d",
                    "e", " ">>)
            /\ EpisodeCodeEnd(urltitle, code(k)) # 0
            /\ DotStarEnd(urltitle, EpisodeCodeEnd(urltitle, code(k)) + 3) # <<>>
        ks == {k \in 1..Len(urltitle) : ok(k)}
    IN  IF ks = {} THEN <<>>
        ELSE LET k == CHOOSE m \in ks : \A n \in ks : n <= m
                 e == EpisodeCodeEnd(urltitle, code(k))
             IN  <<[g1 |-> SubSeq(urltitle, 1, k),
                    g2 |-> SubSeq(urltitle, code(k), e - 1),
                    g3 |-> DotStarEnd(urltitle, e + 3)[1]]>>

\* re.search(' Part ([0-9]+) – ', title): <<>> for None, <<group 1>> otherwise
PartMatch(title) ==
    LET end(i) == RunEnd(title, i + 6, DigitChars)
        at == {i \in 1..Len(title) :
                 /\ StartsWithAt(title, i, <<" ", "P", "a", "r", "t", " ">>)
                 /\ end(i) > i + 6
                 /\ StartsWithAt(title, end(i), <<" ", "ndash", " ">>)}
    IN  IF at = {} THEN <<>>
        ELSE LET i == CHOOSE m \in at : \A n \in at : m <= n
             IN  <<SubSeq(title, i + 6, end(i) - 1)>>

\* The news headlines that are condensed, in the order they are tried
Shortit == <<<<"C", "a", "g", "e", " ", "M", "a", "t", "c", "h", " ", "P", "o", "d", "c",
        "a", "s", "t">>,
             <<"A", "n", " ", "i", "n", "t", "e", "r", "v", "i", "e", "w", " ", "w", "i",
                     "t", "h", " ", "R", "o", "b", "e", "r", "t", " ", "H", "o", "r", "v",
                     "a", "t">>,
             <<"A", "n", " ", "i", "n", "t", "e", "r", "v", "i", "e", "w", " ", "w", "i",
                     "t", "h", " ", "B", "a", "r", "r", "y", " ", "S", "t", "r", "a", "u",
                     "s", "s">>>>

\* The announcement's title: the first headline of Shortit that urltitle
\* starts with, urltitle when there is none
Shorten(urltitle) ==
    LET hits == {h \in 1..Len(Shortit) : Find(urltitle, Shortit[h]) = 1}
    IN  IF hits = {} THEN urltitle
        ELSE Shortit[CHOOSE h \in hits : \A g \in hits : h <= g]

\* What the title leaves in self: type, episode, series and title, or the
\* exception that group() of a failed match (None) raises.
TitleFields(raised, type, episode, series, title) ==
    [raised |-> raised, type |-> type, episode |-> episode, series |-> series,
     title |-> title]

Classify(urltitle) ==
    LET start == EpisodeSearch(urltitle)
        podmatch == PodcastMatch(urltitle)
        epmatch == SpecialMatch(urltitle)
        ptmatch == PartMatch(epmatch[1].g3)
    IN  IF start = 0
        THEN TitleFields("", "news", <<>>, "none", Shorten(urltitle))
        ELSE IF start = 1
        THEN IF podmatch = <<>>
             THEN TitleFields("AttributeError", "podcast", <<>>, "none", <<>>)
             ELSE TitleFields("", "podcast", podmatch[1].g1, "none", podmatch[1].g2)
        ELSE IF epmatch = <<>>
             THEN TitleFields("AttributeError", "special", <<>>, "none", <<>>)
        ELSE IF epmatch[1].g1 = <<"B", "y", "z", "a", "n", "t", "i", "n", "e", " ", "S", "t",
                "o", "r", "i", "e", "s">>
             THEN TitleFields("", "special",
                              Join(<<epmatch[1].g2>> \o ptmatch, <<".">>),
                              "stories", epmatch[1].g3)
        ELSE IF epmatch[1].g1 = <<"B", "a", "c", "k", "e", "r", " ", "R", "e", "w", "a", "r",
                "d", "s">>
             THEN TitleFields("", "special", epmatch[1].g2, "rewards", epmatch[1].g3)
        ELSE TitleFields("", "news", <<>>, "none", urltitle)

\* ------------------------------------------------------ Publication.getPeriod
\* re.search('^Period: (.*)$', pertext): <<>> for None, <<group 1>> otherwise
PeriodMatch(pertext) ==
    IF StartsWithAt(pertext, 1, <<"P", "e", "r", "i", "o", "d", ":", " ">>)
    THEN DotStarEnd(pertext, 9)
    ELSE <<>>

\* re.search('^Period: ([1-9][0-9][0-9-]+)', pertext): <<>> for None,
\* <<group 1>> otherwise
YearsMatch(pertext) ==
    LET e == RunEnd(pertext, 11, DigitChars \cup {"-"})
    IN  IF /\ StartsWithAt(pertext, 1, <<"P", "e", "r", "i", "o", "d", ":", " ">>)
           /\ Len(pertext) >= 11
           /\ pertext[9] \in DigitChars \ {"0"}
           /\ pertext[10] \in DigitChars
           /\ e > 11
        THEN <<SubSeq(pertext, 9, e - 1)>>
        ELSE <<>>

\* A variant that completes an end year within the decade only.
ExpandDecadeOnly(fr, to) ==
    IF to < 10 THEN (fr \div 10) * 10 + to ELSE to

\* The end year written in full, when it is given within the decade or the
\* century of the start year
Expand(fr, to) ==
    IF to < 10 THEN (fr \div 10) * 10 + to
    ELSE IF to < 100 THEN (fr \div 100) * 100 + to
    ELSE to

\* The period of a from[-to] text, or the ValueError of int('')
Years(period) ==
    LET fromto == Split(period, "-")
    IN  IF Len(fromto) > 1
        THEN IF IntRaises(fromto[1]) \/ IntRaises(fromto[2])
             THEN [raised |-> "ValueError", period |-> period]
             ELSE [raised |-> "",
                   period |-> ToStr(ToInt(fromto[1])) \o <<"-">> \o
                              ToStr(Expand(ToInt(fromto[1]), ToInt(fromto[2])))]
        ELSE [raised |-> "", period |-> period]

\* A variant that leaves "century" as it is.
FreeTextVerbatim(text) ==
    Replace(text, <<" ">>, <<"nbsp">>)

\* The period of a free text, such as a century: its spaces made no-break
\* spaces, its "century" made "c."
FreeText(text) ==
    Replace(Replace(text, <<" ">>, <<"nbsp">>),
            <<"c", "e", "n", "t", "u", "r", "y">>, <<"c", ".">>)

\* One turn of the loop over periodEls: the period after the element whose
\* text is given, period being the one found so far
PeriodOf(text, period) ==
    LET pertext == Replace(text, <<"nbsp">>, <<" ">>)
    IN  IF PeriodMatch(pertext) = <<>> THEN [raised |-> "", period |-> period]
        ELSE IF YearsMatch(pertext) # <<>> THEN Years(YearsMatch(pertext)[1])
        ELSE [raised |-> "", period |-> FreeText(PeriodMatch(pertext)[1])]

RECURSIVE PeriodLoop(_, _)
PeriodLoop(periodEls, period) ==
    IF periodEls = <<>> THEN [raised |-> "", period |-> period]
    ELSE IF PeriodOf(Head(periodEls), period).raised # ""
    THEN PeriodOf(Head(periodEls), period)
    ELSE PeriodLoop(Tail(periodEls), PeriodOf(Head(periodEls), period).period)

\* getPeriod of a publication with the title given, periodEls being the
\* texts of the elements of the page that contain "Period:"
getPeriod(title, periodEls) ==
    IF title = <<"C", "y", "p", "r", "u", "s", ":", " ", "5", "6", "5", " ", "ndash", " ",
            "9", "6", "5", " ", "A", "D">>
    THEN [raised |-> "", period |-> <<"5", "6", "5", "-", "9", "6", "5">>]
    ELSE PeriodLoop(periodEls, <<>>)

\* Publication(url) of a page given by the text of its h1.entry-title and the
\* texts of its "Period:" elements: the fields of self, and the exception
\* raised, "" when there is none.
PublicationInit(url, page) ==
    LET urltitle == UrlTitle(page.text)
        t == Classify(urltitle)
        p == IF t.raised # "" THEN [raised |-> t.raised, period |-> <<>>]
             ELSE getPeriod(t.title, page.periodEls)
    IN  [url |-> url, next |-> page.next, urltitle |-> urltitle,
         type |-> t.type, episode |-> t.episode, series |-> t.series,
         title |-> t.title, period |-> p.period, raised |-> p.raised]

\* ------------------------------------------------- the pages that are parsed
\* What stands before "Episode" in a title: nothing, the two series, a series
\* without its full stop, a series that is not known, and series names that
\* '[A-Za-z ]+[.]? ' does not match.
Prefixes == {<<>>, <<"B", "y", "z", "a", "n", "t", "i", "n", "e", " ", "S", "t", "o", "r",
        "i", "e", "s", ".", " ">>, <<"B", "a", "c", "k", "e", "r", " ", "R", "e", "w", "a",
        "r", "d", "s", ".", " ">>, <<"B", "a", "c", "k", "e", "r", " ", "R", "e", "w", "a",
        "r", "d", "s", " ">>,
             <<"B", "o", "n", "u", "s", " ", "C", "o", "n", "t", "e", "n", "t", ".", " ">>,
                     <<"B", "y", "z", "a", "n", "t", "i", "n", "e", " ", "S", "t", "o", "r",
                     "i", "e", "s", ":", " ">>, <<"B", "y", "z", "a", "n", "t", "i", "n",
                     "e", " ", "S", "t", "o", "r", "i", "e", "s", ".">>,
             <<"T", "o", "p", " ", "1", "0", ".", " ">>}
EpisodeCodes == {<<"1">>, <<"1", "2">>, <<"2", "a">>}
Separators == {<<" ", "ndash", " ">>, <<"nbsp", "&", "#", "8", "2", "1", "1", ";", "&", "n",
        "b", "s", "p", ";">>}
Rests == {<<>>, <<"T", "h", "e", " ", "S", "e", "q", "u", "e", "l">>, <<"J", "o", "h", "n",
        " ", "C", "h", "r", "y", "s", "o", "s", "t", "o", "m", ".", " ", "P", "a", "r", "t",
        " ", "2", " ", "ndash", " ", "E", "x", "i", "l", "e">>, <<"P", "a", "r", "t", " ",
        "2", " ", "ndash", " ", "E", "x", "i", "l", "e">>,
          <<"P", "a", "r", "t", " ", "t", "w", "o">>}
EpisodeTitles ==
    {pre \o <<"E", "p", "i", "s", "o", "d", "e", " ">> \o code \o sep \o rest :
        pre \in Prefixes, code \in EpisodeCodes, sep \in Separators, rest \in Rests}
NewsTitles == {<<"C", "a", "g", "e", " ", "M", "a", "t", "c", "h", " ", "P", "o", "d", "c",
        "a", "s", "t", ":", " ", "t", "h", "e", " ", "f", "i", "n", "a", "l">>, <<"A", "n",
        " ", "i", "n", "t", "e", "r", "v", "i", "e", "w", " ", "w", "i", "t", "h", " ", "B",
        "a", "r", "r", "y", " ", "S", "t", "r", "a", "u", "s", "s">>,
               <<"E", "p", "i", "s", "o", "d", "e", " ", "O", "n", "e">>, <<"B", "y", "z",
                       "a", "n", "t", "i", "n", "e", " ", "S", "t", "o", "r", "i", "e", "s",
                       ".", " ", "E", "p", "i", "s", "o", "d", "e", " ", "3">>,
               <<"C", "y", "p", "r", "u", "s", ":", " ", "5", "6", "5", " ", "ndash", " ",
                       "9", "6", "5", " ", "A", "D">>, <<"A", " ", "l", "i", "n", "e", "\n",
                       "E", "p", "i", "s", "o", "d", "e", " ", "4", " ", "ndash", " ", "a",
                       "n", "d", " ", "a", "n", "o", "t", "h", "e", "r", "\n", "a", "n", "d",
                       " ", "a", " ", "t", "h", "i", "r", "d">>}

Froms == {<<"1", "0">>, <<"9", "7", "6">>, <<"1", "0", "7", "1">>, <<"1", "4", "5", "3">>}
Tos == {<<>>, <<"0">>, <<"8">>, <<"0", "8">>, <<"7", "8">>, <<"9", "9">>, <<"1", "0", "0">>,
        <<"9", "8", "1">>}
Tails == {<<>>, <<" ", "A", "D">>, <<"-", "9">>}
YearTexts ==
    {<<"P", "e", "r", "i", "o", "d", ":",
            " ">> \o fr \o <<"-">> \o to \o tail : fr \in Froms, to \in Tos, tail \in Tails}
        \cup {<<"P", "e", "r", "i", "o", "d", ":", " ">> \o fr \o tail : fr \in Froms,
                tail \in Tails \ {<<"-", "9">>}}
FreeTexts == {<<"P", "e", "r", "i", "o", "d", ":", " ", "1", "2", "t", "h", " ", "c", "e",
        "n", "t", "u", "r", "y">>, <<"P", "e", "r", "i", "o", "d", ":", "nbsp", "1", "2",
        "t", "h", "nbsp", "c", "e", "n", "t", "u", "r", "y">>,
              <<"P", "e", "r", "i", "o", "d", ":", " ", "F", "r", "o", "m", " ", "t", "h",
                      "e", " ", "4", "t", "h", " ", "c", "e", "n", "t", "u", "r", "y", " ",
                      "t", "o", " ", "t", "h", "e", " ", "6", "t", "h", " ", "c", "e", "n",
                      "t", "u", "r", "y">>,
              <<"P", "e", "r", "i", "o", "d", ":", " ", "5", "-", "7">>, <<"P", "e", "r",
                      "i", "o", "d", ":", " ", "u", "n", "k", "n", "o", "w", "n">>, <<"P",
                      "e", "r", "i", "o", "d", ":", " ">>}
OtherTexts == {<<"T", "h", "e", " ", "P", "e", "r", "i", "o", "d", ":", " ", "1", "0", "7",
        "1", "-", "8">>, <<"P", "e", "r", "i", "o", "d", ":", "1", "0", "7", "1", "-", "8">>,
        <<"P", "e", "r", "i", "o", "d", "s">>}
PeriodTexts == YearTexts \cup FreeTexts \cup OtherTexts

\* A page as Publication.__init__ reads it: the text of h1.entry-title, the
\* texts of the elements that contain "Period:", and no newer publication.
RawPage(text, periodEls) == [text |-> text, periodEls |-> periodEls, next |-> NoUrl]

\* The run starts on a site of one page: any title with one year range or no
\* period, or any period text, alone or after another, under two titles.
InitParse ==
    /\ \/ \E text \in EpisodeTitles \cup NewsTitles :
          \E periodEls \in {<<>>, <<<<"P", "e", "r", "i", "o", "d", ":", " ", "1", "0", "7",
                  "1", "-", "8">>>>} :
             web = <<RawPage(text, periodEls)>>
       \/ \E text \in {<<"E", "p", "i", "s", "o", "d", "e", " ", "1", " ", "ndash", " ", "T",
               "h", "e", " ", "B", "e", "g", "i", "n", "n", "i", "n", "g">>, <<"C", "y", "p",
               "r", "u", "s", ":", " ", "5", "6", "5", " ", "ndash", " ", "9", "6", "5", " ",
               "A", "D">>} :
          \E pertext \in PeriodTexts :
          \E periodEls \in {<<pertext>>, <<<<"P", "e", "r", "i", "o", "d", ":", " ", "3",
                  "3", "0", "-", "7">>, pertext>>} :
             web = <<RawPage(text, periodEls)>>
    /\ files = <<Template(1, {}, FirstEp(0), TRUE)>>
    /\ maxPubs = <<>>
    /\ InitRun

\* newPub = Publication(newUrl), of the first page of the site
Construct ==
    /\ pc = "start"
    /\ newPub' = PublicationInit(1, web[1])
    /\ pc' = IF newPub'.raised = "" THEN "constructed" ELSE "construct_error"
    /\ newUrl' = 1
    /\ UNCHANGED <<web, clock, files, run, maxPubs, iDom, npubs, stdout, merged>>

SpecParse == InitParse /\ [][Construct]_vars

\* ================================================================= claims
\* s is a prefix of t
IsPrefix(s, t) == Len(s) <= Len(t) /\ SubSeq(t, 1, Len(s)) = s

\* The rows of every panel of document d, as one tuple.
Panels(d) == <<d.century, d.special, d.all>>

\* The hrefs of the rows of a table.
Hrefs(table) == {table[i].href : i \in 1..Len(table)}

\* C1: over any sequence of merges, within one run or across resumed runs,
\* currentCentury never moves to an earlier century panel: in every step its
\* position in the panel order is at least what it was.
C1_CenturyNeverGoesBack ==
    [][iDom'.currCentury >= iDom.currCentury]_vars

\* C1 witness: in a resumed run the current century has advanced twice since
\* the template, the second time in the resumed run.
C1_Witness ==
    /\ run = 2
    /\ pc = "loop"
    /\ files[1].currCentury = 1
    /\ files[2].currCentury = 2
    /\ iDom.currCentury = 3

\* C2: merging a record whose URL is in pendingSkip appends no row to any
\* panel and removes exactly that entry; merging any other record leaves
\* pendingSkip unchanged; no step adds an entry, so an entry is removed once,
\* by the first merge of its URL.
C2_SkipConsumedOnce ==
    [][/\ iDom'.skip \subseteq iDom.skip
       /\ pc = "merge" /\ newPub.url \in iDom.skip =>
            /\ iDom'.skip = iDom.skip \ {newPub.url}
            /\ Panels(iDom') = Panels(iDom)
       /\ ~(pc = "merge" /\ newPub.url \in iDom.skip) =>
            iDom'.skip = iDom.skip]_vars

\* C2 witness: the first of two skip entries has been consumed by the merge of
\* its page, the other is still pending, and no panel has a row of that page.
C2_Witness ==
    /\ pc = "loop"
    /\ files[1].skip = {1, 2}
    /\ iDom.skip = {2}
    /\ merged = <<1>>
    /\ iDom.currPub = 1
    /\ iDom.all = <<>>
    /\ \A c \in Centuries : iDom.century[c] = <<>>
    /\ \A x \in Series : iDom.special[x] = <<>>

\* C9: rows are append-only: in every step, the rows a panel had before the
\* step are a prefix of the rows it has after it.
C9_RowsAppendOnly ==
    [][/\ \A c \in Centuries : IsPrefix(iDom.century[c], iDom'.century[c])
       /\ \A x \in Series : IsPrefix(iDom.special[x], iDom'.special[x])
       /\ IsPrefix(iDom.all, iDom'.all)]_vars

\* C9 witness: a resumed run has appended to panels that already had rows: a
\* century panel and the list of all episodes.
C9_Witness ==
    /\ run = 2
    /\ Len(files[2].all) >= 1
    /\ Len(iDom.all) > Len(files[2].all)
    /\ \E c \in Centuries :
         Len(files[2].century[c]) >= 1 /\ Len(iDom.century[c]) > Len(files[2].century[c])

\* The pages of the site, in chain order.
Chain == [u \in 1..Len(web) |-> u]

\* C3: after every merge, skipped or not and whatever the type,
\* currentProcessedUrl is the merged record's URL and currentIndexDate is the
\* record's published date if it has a next pointer, today's date otherwise.
C3_StateUpdatedByEveryMerge ==
    [][pc = "merge" =>
         /\ iDom'.currPub = newPub.url
         /\ newPub.next = NoUrl => iDom'.currDate = TodayDate
         /\ newPub.next # NoUrl =>
              /\ newPub.published # <<>>
              /\ iDom'.currDate = Take(newPub.published[1], 1)]_vars

\* C4: with <num records> given as k, a run merges at most k publications.
C4_AtMostCapMerged ==
    maxPubs # <<>> => npubs <= maxPubs[1]

\* C8: merge never fails: for every record and every index document,
\* addToIndex completes and performs the state update.
C8_MergeNeverFails ==
    pc = "merge" =>
        /\ ~addToIndex(newPub, iDom).raised
        /\ addToIndex(newPub, iDom).dom.currPub = newPub.url

\* C6: from an empty document, a run without a cap in which every fetch
\* succeeds merges every publication of the chain once, in chain order, and
\* ends with currentProcessedUrl the last publication's URL and
\* currentIndexDate today's date.
C6_UncappedRunMergesWholeChain ==
    run = 1 /\ maxPubs = <<>> /\ pc \in {"done", "merge_error"} =>
        /\ pc = "done"
        /\ merged = Chain
        /\ iDom.currPub = Len(web)
        /\ iDom.currDate = TodayDate

\* C10: when fetching a publication fails, in the resume re-fetch or in the
\* loop, nothing is on standard output: no document is emitted, not even one
\* that reflects the publications merged before the failure.
C10_NoDocumentAfterFetchFailure ==
    pc = "fetch_error" => stdout = <<>>

\* C10 witness: the fetch fails in the loop of a resumed run, after
\* publications were merged in this run.
C10_Witness ==
    /\ pc = "fetch_error"
    /\ run = 2
    /\ npubs >= 1
    /\ iDom # files[2]
    /\ stdout = <<>>

\* What C5 compares of two documents: the rows of the panels, the current
\* century, the current publication and the skip list.
Compared(d) == <<d.century, d.special, d.all, d.currCentury, d.currPub, d.skip>>

\* No element occurs twice in seq.
NoRepeat(seq) == \A i, j \in 1..Len(seq) : seq[i] = seq[j] => i = j

\* C5: a run with cap k followed by a run without a cap on the document the
\* first printed leaves the same panels, currentCentury, currentProcessedUrl
\* and pendingSkip as one run without a cap on the initial document, and no
\* publication is merged twice.
C5_ResumedRunEqualsSingleRun ==
    run >= 2 /\ pc = "done" =>
        /\ ~UncappedRun(files[1]).raised
        /\ Compared(stdout[1]) = Compared(UncappedRun(files[1]).dom)
        /\ NoRepeat(merged)

\* C5 witness: the first run stopped at its cap before the end of the chain,
\* and the resumed run merged the rest and printed the index.
C5_Witness ==
    /\ run = 2
    /\ pc = "done"
    /\ files[2].currPub # NoUrl
    /\ Publication(files[2].currPub).next # NoUrl
    /\ npubs >= 1
    /\ merged = Chain
    /\ stdout[1].currPub = Len(web)

\* The rows that the merges of the pages in seq put in the list of all
\* episodes: one per page that is no special episode and was not on the skip
\* list, in the order of seq.
ListedPages(seq) ==
    LET Listed(u) == web[u].type # "special" /\ u \notin files[1].skip
    IN  SelectSeq(seq, Listed)

ExpectedAll(seq) == [i \in 1..Len(ListedPages(seq)) |-> Row(web[ListedPages(seq)[i]])]

\* The rows of the century panels 1..c of d, panel after panel.
RECURSIVE CenturyRowsUpTo(_, _)
CenturyRowsUpTo(d, c) ==
    IF c = 0 THEN <<>> ELSE CenturyRowsUpTo(d, c - 1) \o d.century[c]

\* C7: from a template with empty tables whose currentCentury names a panel,
\* the "all" panel holds exactly one row per merged non-skipped episode or
\* announcement, in merge order (a merge that raised has placed its row or
\* not); each of these rows is in exactly one century panel, the one selected
\* at its merge; rows of special episodes are in the panel of their series
\* only.
C7_PlacementPartition ==
    files[1].currCentury \in Centuries =>
        /\ IsPrefix(ExpectedAll(merged), iDom.all)
        /\ IsPrefix(iDom.all,
                    ExpectedAll(IF pc = "merge_error"
                                THEN Append(merged, newPub.url) ELSE merged))
        /\ NoRepeat(iDom.all)
        /\ \A i \in 1..Len(iDom.all) :
             Cardinality({c \in Centuries : iDom.all[i].href \in Hrefs(iDom.century[c])}) = 1
        /\ CenturyRowsUpTo(iDom, NumCenturies) = iDom.all
        /\ iDom.all # <<>> =>
             iDom.all[Len(iDom.all)].href \in Hrefs(iDom.century[iDom.currCentury])
        /\ \A u \in 1..Len(web) : web[u].type = "special" =>
             /\ u \notin Hrefs(iDom.all)
             /\ \A c \in Centuries : u \notin Hrefs(iDom.century[c])
             /\ \A x \in Series \ {web[u].series} : u \notin Hrefs(iDom.special[x])
        /\ \A x \in Series : \A i \in 1..Len(iDom.special[x]) :
             /\ web[iDom.special[x][i].href].type = "special"
             /\ web[iDom.special[x][i].href].series = x

\* C7 witness: a run has placed two rows in two different century panels and
\* a special episode in its series panel, and printed the index.
C7_Witness ==
    /\ pc = "done"
    /\ files[1].currCentury = 1
    /\ Len(iDom.all) = 2
    /\ Len(iDom.century[1]) = 1
    /\ Len(iDom.century[2]) = 1
    /\ Len(iDom.special["stories"]) = 3
    /\ Len(merged) = 3

\* The number of publications on the chain from url to its end.
RECURSIVE ChainLen(_)
ChainLen(url) == IF url = NoUrl THEN 0 ELSE 1 + ChainLen(web[url].next)

Min(a, b) == IF a <= b THEN a ELSE b

\* The number of merges the stopping rule allows a run that starts with L
\* publications ahead: all of them without a cap, one more than the cap with
\* one.
Allowed(L, cap) == IF cap = <<>> THEN L ELSE Min(L, cap[1] + 1)

\* C15: with cap k and L publications remaining from the start URL, a run
\* whose loop ends has merged exactly min(L, k + 1) publications, one beyond
\* the cap; without a cap it has merged all L.  No run merges more.  (The
\* counter is that of the current run from line 311 on.)
C15_StoppingRule ==
    pc \in {"loop", "merge", "merge_error", "done"} =>
        LET L == ChainLen(ResumeUrl(files[run]))
        IN  /\ npubs <= Allowed(L, maxPubs)
            /\ pc = "done" => npubs = Allowed(L, maxPubs)

\* C15 witness: a run with cap 1 on a chain of three publications has ended
\* after two merges, the third publication not read.
C15_Witness ==
    /\ pc = "done"
    /\ run = 1
    /\ maxPubs = <<1>>
    /\ Len(web) = 3
    /\ npubs = 2
    /\ iDom.currPub = 2

\* The step merges, without skipping it, a record read from a page.
MergesUnskipped == pc = "merge" /\ newPub.url \notin iDom.skip

\* In the step, the century panels other than c keep their rows, and panel c
\* (if the index has it) gets row tr appended.
PlacedInCentury(c, tr) ==
    \A e \in Centuries :
        iDom'.century[e] = IF e = c THEN Append(iDom.century[e], tr) ELSE iDom.century[e]

\* C16: merging a non-skipped episode with the purely numeric code n sets
\* currentCentury to the panel right after the current one, and places the row
\* there, exactly when that panel exists and n >= its firstEpisodeNumber;
\* otherwise currentCentury is unchanged and the row goes to the current
\* panel.  One merge advances by one panel at most, whatever the thresholds of
\* the later panels.  (Panels whose data-first-ep is a number.)
C16_AdvanceByOnePanel ==
    [][MergesUnskipped /\ newPub.type = "podcast" /\ IsNumeric(newPub.episode) =>
         LET c  == iDom.currCentury
             n  == ToInt(newPub.episode)
             nx == c \in Centuries /\ c + 1 \in Centuries
         IN  IF nx /\ ~IsNumeric(iDom.firstEp[c + 1]) THEN TRUE
             ELSE IF nx /\ n >= ToInt(iDom.firstEp[c + 1])
             THEN /\ iDom'.currCentury = c + 1
                  /\ PlacedInCentury(c + 1, Row(newPub))
             ELSE /\ iDom'.currCentury = c
                  /\ PlacedInCentury(c, Row(newPub))]_vars

\* C16 witness: episode 2 was merged with the first panel current; the second
\* and the third panel both start at episode 2; the row is in the second panel
\* and the second panel is current.
C16_Witness ==
    /\ pc = "loop"
    /\ merged = <<1>>
    /\ web[1].type = "podcast" /\ web[1].episode = <<"2">>
    /\ files[1].currCentury = 1
    /\ ToInt(iDom.firstEp[2]) = 2 /\ ToInt(iDom.firstEp[3]) = 2
    /\ iDom.currCentury = 2
    /\ Hrefs(iDom.century[2]) = {1}
    /\ iDom.century[3] = <<>>

\* C17: merging an announcement, a special episode or an episode whose code
\* has a letter suffix never changes currentCentury, even when the number in
\* the code is >= the next panel's firstEpisodeNumber; the row of such an
\* episode or announcement is placed in the panel currentCentury named before
\* the merge, and a special episode's row in no century panel.
C17_NoAdvanceWithoutNumericEpisode ==
    [][pc = "merge" /\ ~(newPub.type = "podcast" /\ IsNumeric(newPub.episode)) =>
         /\ iDom'.currCentury = iDom.currCentury
         /\ MergesUnskipped /\ newPub.type # "special" =>
              PlacedInCentury(iDom.currCentury, Row(newPub))
         /\ newPub.type = "special" => iDom'.century = iDom.century]_vars

\* C17 witness: episode "2a" was merged while the next panel started at
\* episode 2; the first panel is still current and has the row.
C17_Witness ==
    /\ pc = "loop"
    /\ merged = <<1>>
    /\ web[1].type = "podcast" /\ web[1].episode = <<"2", "a">>
    /\ ToInt(iDom.firstEp[2]) = 2
    /\ files[1].currCentury = 1
    /\ iDom.currCentury = 1
    /\ Hrefs(iDom.century[1]) = {1}
    /\ iDom.century[2] = <<>>

\* C19: a skipped merge leaves currentCentury and the rows of every panel
\* unchanged, also when the skipped record is a numeric episode at or past the
\* next panel's threshold: nothing but the skip list, currentProcessedUrl and
\* currentIndexDate changes.  The advance is left to the next non-skipped
\* numeric episode that meets the threshold.
C19_SkippedMergeTouchesStateOnly ==
    [][/\ pc = "merge" /\ newPub.url \in iDom.skip =>
            [iDom' EXCEPT !.skip = iDom.skip, !.currPub = iDom.currPub,
                          !.currDate = iDom.currDate] = iDom
       /\ /\ MergesUnskipped /\ newPub.type = "podcast" /\ IsNumeric(newPub.episode)
          /\ iDom.currCentury \in Centuries /\ iDom.currCentury + 1 \in Centuries
          /\ IsNumeric(iDom.firstEp[iDom.currCentury + 1])
          /\ ToInt(newPub.episode) >= ToInt(iDom.firstEp[iDom.currCentury + 1])
          => iDom'.currCentury = iDom.currCentury + 1]_vars

\* C19 witness: episode 2 on the first page was skipped with the first panel
\* current and the second starting at episode 2; the episode 2 on the second
\* page, not skipped, took the advance and is the only row.
C19_Witness ==
    /\ pc = "loop"
    /\ merged = <<1, 2>>
    /\ 1 \in files[1].skip /\ 2 \notin files[1].skip
    /\ web[1].type = "podcast" /\ web[1].episode = <<"2">>
    /\ web[2].type = "podcast" /\ web[2].episode = <<"2">>
    /\ files[1].currCentury = 1
    /\ iDom.currCentury = 2
    /\ Hrefs(iDom.century[2]) = {2}
    /\ Hrefs(iDom.all) = {2}
    /\ iDom.century[1] = <<>>

\* The index file of the current run is up to date: its current publication
\* is set and the page there has no next link.
UpToDate ==
    /\ files[run].currPub # NoUrl
    /\ Publication(files[run].currPub).next = NoUrl

\* C20: a run on an up-to-date index is a no-op: it merges nothing and leaves
\* the panels, pendingSkip, currentCentury, currentProcessedUrl and
\* currentIndexDate as they were; the date is not refreshed to today.  What it
\* prints is the index file it read.
C20_RerunOnUpToDateIndexIsNoOp ==
    UpToDate =>
        /\ pc \notin {"merge", "merge_error"}
        /\ iDom = files[run]
        /\ pc = "done" => stdout = <<files[run]>>

\* C20 witness: the day after a run that reached the end of the chain, a
\* second run has printed the index, still dated the day of the first run.
C20_Witness ==
    /\ UpToDate
    /\ pc = "done"
    /\ run = 2
    /\ clock = 1
    /\ stdout[1].currDate = <<Today, 0>>
    /\ stdout[1].currDate # TodayDate
    /\ Len(stdout[1].all) >= 1

\* The page reached from url by k next links (NoUrl past the end).
RECURSIVE Follow(_, _)
Follow(url, k) ==
    IF url = NoUrl \/ k = 0 THEN url ELSE Follow(web[url].next, k - 1)

\* No chain of next links comes back to a page.
Acyclic == \A u \in 1..Len(web) : Follow(u, Len(web)) = NoUrl

Ended == pc \in {"done", "fetch_error", "merge_error"}

\* C18: on a chain without a cycle every run eventually stops, with or
\* without a cap, and so does a run with a cap on any chain, cycles included;
\* a run with cap k never merges more than k + 1 publications; the loop ends
\* only when the last page merged has no next link or the counter has passed
\* the cap.
C18_Termination ==
    /\ [](pc = "start" /\ (Acyclic \/ maxPubs # <<>>) => <>Ended)
    /\ [](pc \in {"loop", "merge", "merge_error", "done"} /\ maxPubs # <<>> =>
            npubs <= maxPubs[1] + 1)
    /\ [](pc = "done" /\ npubs > 0 =>
            \/ newPub.next = NoUrl
            \/ maxPubs # <<>> /\ npubs > maxPubs[1])

\* C18 witness: a run with cap 2 on a single page that links to itself has
\* stopped after merging the page three times.
C18_Witness ==
    /\ pc = "done"
    /\ run = 1
    /\ maxPubs = <<2>>
    /\ Len(web) = 1 /\ web[1].next = 1
    /\ npubs = 3
    /\ merged = <<1, 1, 1>>

\* ------------------------------------------------ claims about the title
Parsed == pc \in {"constructed", "construct_error"}

\* What stands before the first "Episode N – " of urltitle
Prefix(urltitle) == SubSeq(urltitle, 1, EpisodeSearch(urltitle) - 1)

\* The series name of a prefix "<name>. " or "<name> ": the prefix without
\* its last space and without the full stop before it
SeriesName(prefix) ==
    LET body == SubSeq(prefix, 1, Len(prefix) - 1)
    IN  IF body # <<>> /\ body[Len(body)] = "." THEN SubSeq(body, 1, Len(body) - 1)
        ELSE body

\* A prefix made of a name of letters and spaces, an optional full stop and a
\* space, in a title of one line
ExpectedPrefix(urltitle) ==
    LET prefix == Prefix(urltitle)
    IN  /\ prefix # <<>> /\ prefix[Len(prefix)] = " "
        /\ SeriesName(prefix) # <<>>
        /\ \A i \in 1..Len(SeriesName(prefix)) :
              SeriesName(prefix)[i] \in Upper \cup Lower \cup {" "}
        /\ \A i \in 1..Len(urltitle) : urltitle[i] # "\n"

SpecialOrDegraded ==
    /\ newPub.raised = ""
    /\ \/ newPub.type = "special" /\ newPub.series \in Series
       \/ /\ newPub.type = "news" /\ newPub.series = "none"
          /\ newPub.episode = <<>> /\ newPub.title = newPub.urltitle
    /\ newPub.series # "none" <=> newPub.type = "special"

\* C11, as stated: every title in which "Episode N – " first occurs at a
\* non-zero position is classified without a fatal error, as a special
\* episode of the stories or the rewards, or as a degraded announcement.
C11_AnyPrefixCompletes ==
    Parsed /\ EpisodeSearch(UrlTitle(web[1].text)) > 1 => SpecialOrDegraded

\* C11, amended: such a title is classified without a fatal error when what
\* stands before "Episode" is a name of letters and spaces, an optional full
\* stop and a space: as a special episode of the stories or the rewards when
\* the name is "Byzantine Stories" or "Backer Rewards", as a degraded
\* announcement for any other name, the series being set exactly when the
\* type is special. With any other prefix the construction raises
\* AttributeError.
C11_ExpectedPrefixCompletes ==
    Parsed /\ EpisodeSearch(UrlTitle(web[1].text)) > 1 =>
        IF ExpectedPrefix(UrlTitle(web[1].text))
        THEN /\ SpecialOrDegraded
             /\ newPub.series = "stories" <=>
                    SeriesName(Prefix(newPub.urltitle)) = <<"B", "y", "z", "a", "n", "t",
                            "i", "n", "e", " ", "S", "t", "o", "r", "i", "e", "s">>
             /\ newPub.series = "rewards" <=>
                    SeriesName(Prefix(newPub.urltitle)) = <<"B", "a", "c", "k", "e", "r",
                            " ", "R", "e", "w", "a", "r", "d", "s">>
        ELSE newPub.raised = "AttributeError"

C11_Witness ==
    /\ pc = "constructed"
    /\ web[1].text = <<"B", "o", "n", "u", "s", " ", "C", "o", "n", "t", "e", "n", "t", ".",
            " ", "E", "p", "i", "s", "o", "d", "e", " ", "1", "2", "nbsp", "&", "#", "8",
            "2", "1", "1", ";", "&", "n", "b", "s", "p", ";", "T", "h", "e", " ", "S", "e",
            "q", "u", "e", "l">>
    /\ newPub.type = "news" /\ newPub.series = "none" /\ newPub.episode = <<>>
    /\ newPub.title = <<"B", "o", "n", "u", "s", " ", "C", "o", "n", "t", "e", "n", "t", ".",
            " ", "E", "p", "i", "s", "o", "d", "e", " ", "1", "2", " ", "ndash", " ", "T",
            "h", "e", " ", "S", "e", "q", "u", "e", "l">>

\* C12: a title "Byzantine Stories. Episode N – <text> Part P – <rest>" is
\* classified in the series stories with the episode code "N.P", for any
\* text, the empty one included; without a "Part P – " the code is "N".
C12_StoriesPartCode ==
    Parsed =>
        \A code \in EpisodeCodes :
            /\ \A text \in {<<>>, <<"J", "o", "h", "n", " ", "C", "h", "r", "y", "s", "o",
                    "s", "t", "o", "m", ".", " ">>} :
                  newPub.urltitle = <<"B", "y", "z", "a", "n", "t", "i", "n", "e", " ", "S",
                          "t", "o", "r", "i", "e", "s", ".", " ", "E", "p", "i", "s", "o",
                          "d", "e", " ">> \o code \o <<" ", "ndash", " ">>
                                        \o text \o <<"P", "a", "r", "t", " ", "2", " ",
                                                "ndash", " ", "E", "x", "i", "l", "e">>
                  => /\ newPub.raised = ""
                     /\ newPub.series = "stories"
                     /\ newPub.episode = code \o <<".", "2">>
            /\ \A rest \in {<<>>, <<"T", "h", "e", " ", "S", "e", "q", "u", "e", "l">>,
                    <<"P", "a", "r", "t", " ", "t", "w", "o">>} :
                  newPub.urltitle = <<"B", "y", "z", "a", "n", "t", "i", "n", "e", " ", "S",
                          "t", "o", "r", "i", "e", "s", ".", " ", "E", "p", "i", "s", "o",
                          "d", "e", " ">> \o code \o <<" ", "ndash", " ">>
                                        \o rest
                  => /\ newPub.raised = ""
                     /\ newPub.series = "stories"
                     /\ newPub.episode = code

\* ----------------------------------------------- claims about the period
\* The text of the last "Period:" element of the page
LastPertext == web[1].periodEls[Len(web[1].periodEls)]

\* The title of the page is not the one whose period is hard-coded
OrdinaryTitle == newPub.title # <<"C", "y", "p", "r", "u", "s", ":", " ", "5", "6", "5", " ",
        "ndash", " ", "9", "6", "5", " ", "A", "D">>

\* getPeriod was called, and went through the "Period:" elements of the page
PeriodRead ==
    /\ Parsed /\ newPub.raised # "AttributeError"
    /\ web[1].periodEls # <<>> /\ OrdinaryTitle

\* C13: a period text "FROM-TO" gives "FROM-TO'", TO' being TO completed
\* with the decade of FROM when TO < 10, with its century when
\* 10 <= TO < 100, and TO itself otherwise: "1071-8" gives "1071-1078" and
\* "976-981" gives "976-981"; a text with no TO part gives "FROM". The year
\* range is one that '[1-9][0-9][0-9-]+' accepts: of three characters or more.
C13_YearRangeExpansion ==
    PeriodRead =>
        /\ \A fr \in Froms, tail \in {<<>>, <<" ", "A", "D">>} :
              /\ \A to \in Tos \ {<<>>} :
                    LastPertext = <<"P", "e", "r", "i", "o", "d", ":",
                            " ">> \o fr \o <<"-">> \o to \o tail =>
                        /\ newPub.raised = ""
                        /\ newPub.period = fr \o <<"-">> \o ToStr(
                              IF ToInt(to) < 10 THEN (ToInt(fr) \div 10) * 10 + ToInt(to)
                              ELSE IF ToInt(to) < 100
                                   THEN (ToInt(fr) \div 100) * 100 + ToInt(to)
                              ELSE ToInt(to))
              /\ Len(fr) >= 3 /\ LastPertext = <<"P", "e", "r", "i", "o", "d", ":", " ">> \o fr \o tail =>
                    newPub.raised = "" /\ newPub.period = fr
        /\ LastPertext = <<"P", "e", "r", "i", "o", "d", ":", " ", "1", "0", "7", "1", "-",
                "8">> => newPub.period = <<"1", "0", "7", "1", "-", "1", "0", "7", "8">>
        /\ LastPertext = <<"P", "e", "r", "i", "o", "d", ":", " ", "9", "7", "6", "-", "9",
                "8", "1">> => newPub.period = <<"9", "7", "6", "-", "9", "8", "1">>
        /\ LastPertext = <<"P", "e", "r", "i", "o", "d", ":", " ", "1", "4", "5", "3", "-",
                "0", "8", " ", "A", "D">> => newPub.period = <<"1", "4", "5", "3", "-", "1",
                "4", "5", "8">>
        /\ LastPertext = <<"P", "e", "r", "i", "o", "d", ":", " ", "1", "0", "-", "9",
                "9">> => newPub.period = <<"1", "0", "-", "9", "9">>

C13_Witness ==
    /\ pc = "constructed"
    /\ web[1].periodEls = <<<<"P", "e", "r", "i", "o", "d", ":", " ", "3", "3", "0", "-",
            "7">>, <<"P", "e", "r", "i", "o", "d", ":", " ", "1", "0", "7", "1", "-", "7",
            "8", " ", "A", "D">>>>
    /\ newPub.period = <<"1", "0", "7", "1", "-", "1", "0", "7", "8">>

\* C14, as stated: a period text that is not a year range gives the text
\* with "century" abbreviated to "c."; "12th century" gives "c. 12".
C14_CenturyFirst ==
    PeriodRead =>
        /\ \A text \in FreeTexts :
              LastPertext = text =>
                  newPub.period = Replace(From(UrlTitle(text), 9), <<"c", "e", "n", "t", "u",
                          "r", "y">>, <<"c", ".">>)
        /\ LastPertext = <<"P", "e", "r", "i", "o", "d", ":", " ", "1", "2", "t", "h", " ",
                "c", "e", "n", "t", "u", "r", "y">> => newPub.period = <<"c", ".", " ", "1",
                "2">>

\* C14, amended: a period text that is not a year range gives the text after
\* the label with every space made a no-break space and every "century"
\* made "c.", in the order of the text: "12th century" gives "12th c.", with
\* a no-break space.
C14_FreeTextPeriod ==
    PeriodRead =>
        /\ \A text \in FreeTexts :
              LastPertext = text =>
                  /\ newPub.raised = ""
                  /\ newPub.period =
                        Replace(Replace(From(UrlTitle(text), 9), <<" ">>, <<"nbsp">>),
                                <<"c", "e", "n", "t", "u", "r", "y">>, <<"c", ".">>)
        /\ LastPertext = <<"P", "e", "r", "i", "o", "d", ":", " ", "1", "2", "t", "h", " ",
                "c", "e", "n", "t", "u", "r", "y">> => newPub.period = <<"1", "2", "t", "h",
                "nbsp", "c", ".">>
        /\ LastPertext = <<"P", "e", "r", "i", "o", "d", ":", " ", "F", "r", "o", "m", " ",
                "t", "h", "e", " ", "4", "t", "h", " ", "c", "e", "n", "t", "u", "r", "y",
                " ", "t", "o", " ", "t", "h", "e", " ", "6", "t", "h", " ", "c", "e", "n",
                "t", "u", "r", "y">> =>
              newPub.period = <<"F", "r", "o", "m", "nbsp", "t", "h", "e", "nbsp", "4", "t",
                      "h", "nbsp", "c", ".", "nbsp", "t", "o", "nbsp", "t", "h", "e", "nbsp",
                      "6", "t", "h", "nbsp", "c", ".">>
        /\ LastPertext = <<"P", "e", "r", "i", "o", "d", ":", " ", "5", "-",
                "7">> => newPub.period = <<"5", "-", "7">>

C14_Witness ==
    /\ pc = "constructed"
    /\ web[1].periodEls = <<<<"P", "e", "r", "i", "o", "d", ":", " ", "1", "2", "t", "h",
            " ", "c", "e", "n", "t", "u", "r", "y">>>>
    /\ newPub.period = <<"1", "2", "t", "h", "nbsp", "c", ".">>

====
